---------------------------- MODULE Spec2Model ----------------------------
(***************************************************************************)
(* Model of src/main.py: a slot-aligned poller of the top notice of a     *)
(* remote feed.  Each process aligns to its slot, then loops: fetch,      *)
(* report a failed poll as a status event, publish a new notice as an     *)
(* announcement event, advance the fire time by one period and sleep.     *)
(*                                                                         *)
(* Time is the wall clock in units of 1/Res second.  Text is a sequence   *)
(* of characters; a Hangul syllable is written as its romanisation and    *)
(* counts as one character.  An optional value (Python None or a value)   *)
(* is << >> or << v >>.  A decoded JSON value is a record with a type tag  *)
(* t and one payload field per type.                                       *)
(***************************************************************************)
EXTENDS Integers, Sequences, FiniteSets, TLC

(* ------------------------------ bounds -------------------------------- *)
\* clock units per second
Res == 2
\* loop iterations followed per process
MaxTicks == 3
\* longest time (in units) a request stays in flight
MaxFetchTime == 9
\* longest time (in units) a sleep returns late
MaxOversleep == 1

(* ------------------------- program constants -------------------------- *)
PERIOD_SEC == 4
HTTP_OK == 200
SLOT_MAX == 3
RAND_LO == 100
RAND_HI == 999
BRAND_MARKER == <<"eop", "bi", "teu", "(", "U", "p", "b", "i", "t", ")">>

None == << >>
Some(v) == <<v>>

(* --------------------------- decoded JSON ----------------------------- *)
JNull == [t |-> "null", n |-> 0, s |-> << >>, items |-> << >>, fields |-> << >>]
JBool(b) == [t |-> "bool", n |-> IF b THEN 1 ELSE 0, s |-> << >>, items |-> << >>, fields |-> << >>]
JInt(i) == [t |-> "int", n |-> i, s |-> << >>, items |-> << >>, fields |-> << >>]
\* a float, held in tenths
JFloat(tenths) == [t |-> "float", n |-> tenths, s |-> << >>, items |-> << >>, fields |-> << >>]
JStr(chars) == [t |-> "str", n |-> 0, s |-> chars, items |-> << >>, fields |-> << >>]
JList(xs) == [t |-> "list", n |-> 0, s |-> << >>, items |-> xs, fields |-> << >>]
\* an object is a sequence of <<key, value>> pairs with distinct keys
JObj(kvs) == [t |-> "obj", n |-> 0, s |-> << >>, items |-> << >>, fields |-> kvs]

\* Python truth value of a decoded JSON value
Truthy(v) ==
    CASE v.t = "null" -> FALSE
      [] v.t = "bool" -> v.n = 1
      [] v.t = "int" -> v.n # 0
      [] v.t = "float" -> v.n # 0
      [] v.t = "str" -> Len(v.s) > 0
      [] v.t = "list" -> Len(v.items) > 0
      [] v.t = "obj" -> Len(v.fields) > 0

\* only a dict has the method get
HasGet(v) == v.t = "obj"

HasKey(d, k) == \E i \in 1..Len(d.fields) : d.fields[i][1] = k

\* d.get(k, default)
DictGet(d, k, default) ==
    IF HasKey(d, k)
    THEN d.fields[CHOOSE i \in 1..Len(d.fields) : d.fields[i][1] = k][2]
    ELSE default

(* ------------------------------- text --------------------------------- *)
Digits == <<"0", "1", "2", "3", "4", "5", "6", "7", "8", "9">>
IsDigit(c) == \E i \in 1..10 : Digits[i] = c
DigitVal(c) == (CHOOSE i \in 1..10 : Digits[i] = c) - 1
IsSpace(c) == c \in {" ", "\t", "\n"}

RECURSIVE LStrip(_)
LStrip(s) == IF Len(s) > 0 /\ IsSpace(Head(s)) THEN LStrip(Tail(s)) ELSE s

RECURSIVE RStrip(_)
RStrip(s) ==
    IF Len(s) > 0 /\ IsSpace(s[Len(s)]) THEN RStrip(SubSeq(s, 1, Len(s) - 1)) ELSE s

\* str.strip()
Strip(s) == RStrip(LStrip(s))

\* sub in s
Contains(sub, s) ==
    \E i \in 0..(Len(s) - Len(sub)) : SubSeq(s, i + 1, i + Len(sub)) = sub

RECURSIVE NatToStr(_)
NatToStr(k) ==
    IF k < 10 THEN <<Digits[k + 1]>> ELSE Append(NatToStr(k \div 10), Digits[(k % 10) + 1])

\* str(i) of an int
IntToStr(i) == IF i < 0 THEN <<"-">> \o NatToStr(0 - i) ELSE NatToStr(i)

RECURSIVE DigitsVal(_)
DigitsVal(s) ==
    IF Len(s) = 0 THEN 0
    ELSE 10 * DigitsVal(SubSeq(s, 1, Len(s) - 1)) + DigitVal(s[Len(s)])

\* the text int() accepts: optional surrounding whitespace, optional sign, digits
Unsigned(s) == IF Len(s) > 0 /\ Head(s) \in {"+", "-"} THEN Tail(s) ELSE s
IsIntText(s) ==
    LET u == Unsigned(Strip(s))
    IN  Len(u) > 0 /\ \A i \in 1..Len(u) : IsDigit(u[i])
IntOfText(s) ==
    LET b == Strip(s)
    IN  IF Len(b) > 0 /\ Head(b) = "-" THEN 0 - DigitsVal(Unsigned(b)) ELSE DigitsVal(Unsigned(b))

(* ------------------------- responses of the feed ---------------------- *)
\* One outcome of requests.get: exc is the text of a network-layer
\* RequestException (None when a response arrived); otherwise the response's
\* status_code, ETag and X-Runtime headers (None when absent), len(content),
\* and body: the decoded JSON value, or None when the content is not JSON.
\* frac is the part of the measured latency below one clock unit, in 1/100 ms.
NetError(msg, frac) ==
    [exc |-> Some(msg), status_code |-> 0, etag |-> None, xrt |-> None,
     size |-> 0, body |-> None, frac |-> frac]
Response(sc, etag, xrt, size, body, frac) ==
    [exc |-> None, status_code |-> sc, etag |-> etag, xrt |-> xrt,
     size |-> size, body |-> body, frac |-> frac]

Notice(id, title) == JObj(<< <<"id", id>>, <<"title", title>> >>)
\* the body {"success": true, "data": {"notices": notices}}
Feed(notices) ==
    Some(JObj(<< <<"success", JBool(TRUE)>>,
                <<"data", JObj(<< <<"notices", notices>> >>)>> >>))
Ok(body) == Response(HTTP_OK, Some("W/1"), Some("0.01"), 90, body, 4)

TitleListing ==
    <<" ", "(", "B", "T", "C", ")", " ", "sin", "gyu", " ", "geo", "rae", "ji", "won",
      " ", "an", "nae", "\n">>
TitleBrand == <<" ">> \o BRAND_MARKER \o TitleListing
TitleAlmostBrand == <<"eop", "bi", "teu", "(", "U", "p", ")", " ", "an", "nae">>
TitlePlain == <<"n", "e", "w", "s">>

\* 200 responses with a record as the first notice
NoticeOutcomes ==
    { Ok(Feed(JList(<<Notice(JInt(1), JStr(TitleListing))>>))),
      Ok(Feed(JList(<<Notice(JInt(2), JStr(TitleListing)), Notice(JInt(1), JStr(TitlePlain))>>))),
      Ok(Feed(JList(<<Notice(JInt(3), JStr(TitlePlain))>>))),
      Ok(Feed(JList(<<Notice(JInt(0 - 2), JStr(TitlePlain))>>))),
      Ok(Feed(JList(<<Notice(JInt(3), JStr(TitleBrand))>>))),
      Ok(Feed(JList(<<Notice(JInt(1), JStr(TitleBrand))>>))),
      Ok(Feed(JList(<<Notice(JInt(2), JStr(TitleAlmostBrand))>>))),
      Ok(Feed(JList(<<Notice(JStr(<<" ", "2", " ">>), JStr(TitleListing))>>))),
      Ok(Feed(JList(<<Notice(JStr(<<"2", "a">>), JStr(TitleListing))>>))),
      Ok(Feed(JList(<<Notice(JNull, JStr(TitlePlain))>>))),
      Ok(Feed(JList(<<Notice(JBool(TRUE), JNull)>>))),
      Ok(Feed(JList(<<Notice(JFloat(29), JStr(<< >>))>>))),
      Ok(Feed(JList(<<JObj(<< <<"title", JStr(TitleListing)>> >>)>>))),
      Ok(Feed(JList(<<JObj(<< <<"id", JInt(3)>> >>)>>))),
      Ok(Feed(JList(<<Notice(JInt(3), JInt(7))>>))) }

\* 200 responses whose body has no notice record at the expected place
ShapeOutcomes ==
    { Ok(None),
      Ok(Some(JList(<< >>))),
      Ok(Some(JNull)),
      Ok(Some(JObj(<< >>))),
      Ok(Some(JObj(<< <<"data", JNull>> >>))),
      Ok(Some(JObj(<< <<"data", JList(<<JInt(1)>>)>> >>))),
      Ok(Some(JObj(<< <<"data", JObj(<< >>)>> >>))),
      Ok(Feed(JList(<< >>))),
      Ok(Feed(JObj(<< <<"a", JInt(1)>> >>))),
      Ok(Feed(JStr(<<"x", "y">>))),
      Ok(Feed(JInt(5))),
      Ok(Feed(JList(<<JNull>>))),
      Ok(Feed(JList(<<JObj(<< >>)>>))),
      Ok(Feed(JList(<<JStr(<<"x">>)>>))) }

\* polls that fail: no response, or a response with another status
FailedOutcomes ==
    { NetError("timeout", 5),
      NetError("refused", 16),
      Response(429, None, None, 0, None, 25),
      Response(500, Some("W/2"), Some("0.30"), 21, Some(JObj(<< <<"error", JStr(<<"x">>)>> >>)), 35),
      Response(302, None, Some("0.02"), 0, None, 44) }

AllOutcomes == NoticeOutcomes \cup ShapeOutcomes \cup FailedOutcomes

(* --------------------------- fetch_top_notice ------------------------- *)
API_BASE == "https://api-manager.upbit.com/api/v1/announcements.json"

\* int(time.time() * 1000) at clock value t
EpochMs(t) == (t * 1000) \div Res

\* build_url: the query parameters; bc is the text of the epoch milliseconds
\* followed by the text of a random number of RAND_LO..RAND_HI
build_url(t, rnd) ==
    [base |-> API_BASE, os |-> "android", page |-> "1", per_page |-> "1",
     category |-> "a", bc |-> IntToStr(EpochMs(t)) \o IntToStr(rnd)]

\* (time.perf_counter() - t0) * 1000.0, in 1/100 ms
LatencyMs100(elapsed, frac) == ((elapsed * 100000) \div Res) + frac

MetaOf(top, code, rt, etag, xrt, size, url, error) ==
    [top |-> top, code |-> code, rt_ms |-> rt, etag |-> etag, x_runtime |-> xrt,
     size |-> size, url |-> url, error |-> error]

\* resp.headers.get(name, "-")
HeaderOr(h, default) == IF h = None THEN default ELSE h[1]

\* line 74's first operand: (data.get("data") or {})
DataOrEmpty(data) ==
    LET d == DictGet(data, "data", JNull) IN IF Truthy(d) THEN d ELSE JObj(<< >>)

\* line 74: (data.get("data") or {}).get("notices") or []
NoticesOf(data) ==
    LET n == DictGet(DataOrEmpty(data), "notices", JNull)
    IN  IF Truthy(n) THEN n ELSE JList(<< >>)

\* the exception lines 73-75 raise on a 200 response, "" when they raise none.
\* resp.json() raises a JSONDecodeError, which is a requests.RequestException
\* when reqJsonError (requests 2.27 and later) and only a ValueError otherwise.
ParseError(o, reqJsonError) ==
    IF o.body = None THEN (IF reqJsonError THEN "RequestException" ELSE "ValueError")
    ELSE LET data == o.body[1] IN
         IF ~HasGet(data) THEN "AttributeError"
         ELSE IF ~HasGet(DataOrEmpty(data)) THEN "AttributeError"
         ELSE LET notices == NoticesOf(data) IN
              IF ~Truthy(notices) THEN ""
              ELSE CASE notices.t = "list" -> ""
                     [] notices.t = "str" -> ""
                     [] notices.t = "obj" -> "KeyError"
                     [] OTHER -> "TypeError"

\* line 75: top = notices[0] if notices else None
TopOf(data) ==
    LET notices == NoticesOf(data) IN
    IF ~Truthy(notices) THEN JNull
    ELSE IF notices.t = "list" THEN notices.items[1]
    ELSE JStr(<<Head(notices.s)>>)

\* fetch_top_notice from the outcome o of requests.get: exc is the exception
\* that leaves the function ("" when it returns), meta the dict it returns
fetch_top_notice(url, o, elapsed, reqJsonError) ==
    LET rt == LatencyMs100(elapsed, o.frac)
        failed == MetaOf(JNull, None, rt, "-", "-", 0, url, Some("error"))
    IN
    IF o.exc # None
    THEN [exc |-> "", meta |-> [failed EXCEPT !.error = o.exc]]
    ELSE
      LET etag == HeaderOr(o.etag, "-")
          xrt == HeaderOr(o.xrt, "-")
          err == IF o.status_code = HTTP_OK THEN ParseError(o, reqJsonError) ELSE ""
      IN
      IF err = "RequestException"
      THEN [exc |-> "", meta |-> [failed EXCEPT !.error = Some("Expecting value")]]
      ELSE IF err # ""
      THEN [exc |-> err, meta |-> failed]
      ELSE [exc |-> "",
            meta |-> MetaOf(IF o.status_code = HTTP_OK THEN TopOf(o.body[1]) ELSE JNull,
                            Some(o.status_code), rt, etag, xrt, o.size, url, None)]

(* ------------------------ main: one poll's result --------------------- *)
\* round(x, 1) of a value held in 1/100: to the nearest tenth, ties to even
Round1(v) ==
    LET r == v % 10
        lo == v - r
    IN  IF r > 5 \/ (r = 5 /\ (lo \div 10) % 2 = 1) THEN lo + 10 ELSE lo

\* variant: every poll is reported, the successful ones too
IsFailureAlways(meta) == TRUE

\* line 136
IsFailure(meta) == meta.code # Some(HTTP_OK) \/ meta.error # None

\* variant: the error text is left out of the payload
status_payload_NoError(meta, server, slot, t) ==
    [type |-> "status", found_at |-> EpochMs(t), server |-> server, slot |-> slot,
     http_code |-> meta.code, rt_ms |-> Round1(meta.rt_ms), etag |-> meta.etag,
     x_runtime |-> meta.x_runtime, resp_size |-> meta.size,
     request_url |-> meta.url, error |-> None]

\* lines 137-150; server and slot are the process's, found_at the clock
status_payload(meta, server, slot, t) ==
    [type |-> "status", found_at |-> EpochMs(t), server |-> server, slot |-> slot,
     http_code |-> meta.code, rt_ms |-> Round1(meta.rt_ms), etag |-> meta.etag,
     x_runtime |-> meta.x_runtime, resp_size |-> meta.size,
     request_url |-> meta.url, error |-> meta.error]

\* line 156
HasCandidate(meta) == meta.code = Some(HTTP_OK) /\ Truthy(meta.top)

\* int(x) of a JSON value: "" or the exception it raises
IntError(x) ==
    CASE x.t \in {"int", "bool", "float"} -> ""
      [] x.t = "str" -> IF IsIntText(x.s) THEN "" ELSE "ValueError"
      [] OTHER -> "TypeError"
IntOf(x) ==
    CASE x.t \in {"int", "bool"} -> x.n
      [] x.t = "float" -> IF x.n < 0 THEN 0 - ((0 - x.n) \div 10) ELSE x.n \div 10
      [] x.t = "str" -> IntOfText(x.s)

\* lines 157-160
CurId(top) ==
    LET x == DictGet(top, "id", JInt(0))
    IN  IF IntError(x) = "" THEN IntOf(x) ELSE 0

\* line 162's operand: (top.get("title") or "")
TitleOrEmpty(top) ==
    LET v == DictGet(top, "title", JNull) IN IF Truthy(v) THEN v ELSE JStr(<< >>)

\* line 162
TitleOf(top) == Strip(TitleOrEmpty(top).s)

\* the exception lines 157-163 raise on a candidate, "" when they raise none
CandidateError(top) ==
    IF ~HasGet(top) THEN "AttributeError"
    ELSE IF TitleOrEmpty(top).t # "str" THEN "AttributeError"
    ELSE ""

\* line 166
IsBrand(title) == Len(BRAND_MARKER) > 0 /\ Contains(BRAND_MARKER, title)

\* variant: the comparison is not strict
IsNewGe(cur_id, last) == cur_id >= last

\* variant: any other id counts as new
IsNewNe(cur_id, last) == cur_id # last

\* line 167
IsNew(cur_id, last) == cur_id > last

\* variant: the watermark is not consulted
AnnouncesAnyId(top, last) == ~IsBrand(TitleOf(top))

\* variant: the brand marker is not consulted
AnnouncesBrand(top, last) == IsNew(CurId(top), last)

\* lines 166-167: the candidate is announced
Announces(top, last) == ~IsBrand(TitleOf(top)) /\ IsNew(CurId(top), last)

\* variant: the watermark is left as it was
NewWatermarkStale(top, last) == last

\* line 179: last_seen_id after the announcement of top
NewWatermark(top, last) == CurId(top)

NOTICE_URL == <<"https://upbit.com/service_center/notice?id=">>

(* ---------------------------- extract_ticker -------------------------- *)
UPPER ==
    {"A", "B", "C", "D", "E", "F", "G", "H", "I", "J", "K", "L", "M", "N", "O", "P", "Q",
     "R", "S", "T", "U", "V", "W", "X", "Y", "Z"}
\* [A-Z0-9._-]
IsCodeChar(c) == c \in UPPER \/ IsDigit(c) \/ c \in {".", "_", "-"}

\* the two trigger phrases of TICKER_RE, each as its parts separated by \s*
TRIGGERS ==
    { << <<"sin", "gyu">>, <<"geo", "rae", "ji", "won">>, <<"an", "nae">> >>,
      << <<"di", "ji", "teol">>, <<"ja", "san">>, <<"chu", "ga">> >> }

RECURSIVE SkipSpace(_, _)
SkipSpace(s, i) == IF i <= Len(s) /\ IsSpace(s[i]) THEN SkipSpace(s, i + 1) ELSE i

\* the parts match at i, with any whitespace between consecutive parts
RECURSIVE PartsAt(_, _, _)
PartsAt(s, i, parts) ==
    IF Len(parts) = 0 THEN TRUE
    ELSE LET lit == Head(parts) IN
         /\ i + Len(lit) - 1 <= Len(s)
         /\ SubSeq(s, i, i + Len(lit) - 1) = lit
         /\ PartsAt(s, IF Len(parts) > 1 THEN SkipSpace(s, i + Len(lit)) ELSE i + Len(lit),
                    Tail(parts))

\* the index of the ")" closing the code that opens at i, 0 when there is none
CodeEnd(s, i) ==
    IF s[i] # "(" THEN 0
    ELSE LET ks == {k \in (i + 2)..Len(s) :
                      s[k] = ")" /\ \A m \in (i + 1)..(k - 1) : IsCodeChar(s[m])}
         IN  IF ks = {} THEN 0 ELSE CHOOSE k \in ks : TRUE

\* TICKER_RE matches s starting at i
MatchesAt(s, i) ==
    LET k == CodeEnd(s, i) IN
    /\ k > 0
    /\ \E j \in (k + 1)..Len(s) :
         /\ \A m \in (k + 1)..(j - 1) : s[m] # "\n"
         /\ \E parts \in TRIGGERS : PartsAt(s, j, parts)

\* lines 84-88: None, or the code of the leftmost match
extract_ticker(title) ==
    LET starts == {i \in 1..Len(title) : MatchesAt(title, i)} IN
    IF Len(title) = 0 \/ starts = {} THEN None
    ELSE LET i == CHOOSE a \in starts : \A b \in starts : a <= b
         IN  Some(SubSeq(title, i + 1, CodeEnd(title, i) - 1))

\* variant: the result of extract_ticker is published as it is
TickerFieldRaw(title) ==
    LET m == extract_ticker(title) IN IF m = None THEN JNull ELSE JStr(m[1])

\* line 175: extract_ticker(title) or "", as the JSON value that is published
TickerField(title) ==
    LET m == extract_ticker(title)
    IN  IF m = None \/ Len(m[1]) = 0 THEN JStr(<< >>) ELSE JStr(m[1])

\* lines 168-176
announce_payload(top, server, t) ==
    [type |-> "announcement", found_at |-> EpochMs(t), server |-> server,
     notice_id |-> IntToStr(CurId(top)), title |-> TitleOf(top),
     url |-> NOTICE_URL \o IntToStr(CurId(top)), ticker |-> TickerField(TitleOf(top))]

(* ------------------------------ startup ------------------------------- *)
\* line 124-126: int(START_TARGET_ID), 0 when it is unset or no int
StartId(start_target_id) ==
    IF start_target_id # None /\ IsIntText(start_target_id[1])
    THEN IntOfText(start_target_id[1])
    ELSE 0

\* variant: a configured slot equal to the period is accepted
get_slot_UpToPeriod(slot_env) ==
    IF slot_env # None /\ IsIntText(slot_env[1])
       /\ 0 <= IntOfText(slot_env[1]) /\ IntOfText(slot_env[1]) <= PERIOD_SEC
    THEN {IntOfText(slot_env[1])}
    ELSE 0..SLOT_MAX

\* get_slot: the values it can return for SLOT; the draw is any of 0..SLOT_MAX
get_slot(slot_env) ==
    IF slot_env # None /\ IsIntText(slot_env[1])
       /\ 0 <= IntOfText(slot_env[1]) /\ IntOfText(slot_env[1]) <= SLOT_MAX
    THEN {IntOfText(slot_env[1])}
    ELSE 0..SLOT_MAX

\* variant: a slot boundary equal to the call time is taken as it is
AlignFirstNow(slot, t) ==
    LET now_floor == t \div Res
        base == now_floor - (now_floor % PERIOD_SEC)
        first == base + slot
    IN  IF first * Res < t THEN first + PERIOD_SEC ELSE first

\* lines 105-110 at clock value t: the first fire time, in seconds
AlignFirst(slot, t) ==
    LET now_floor == t \div Res
        base == now_floor - (now_floor % PERIOD_SEC)
        first == base + slot
    IN  IF first * Res <= t THEN first + PERIOD_SEC ELSE first

\* variant: the wait is a whole period, whatever the time already spent
SleepForPeriod(target, t) == PERIOD_SEC * Res

\* max(0.0, target - now) at clock value t, in clock units
SleepFor(target, t) == IF target * Res - t > 0 THEN target * Res - t ELSE 0

(* ------------------------------- state -------------------------------- *)
\* the processes, by SERVER_NAME
Procs == {"s1", "s2"}

VARIABLES
    now,           \* the wall clock, in units of 1/Res second
    env,           \* per process: START_TARGET_ID and SLOT, each None or a text
    pc,            \* per process: where its control is
    last_seen_id,  \* per process: main's last_seen_id
    slot,          \* per process: main's slot
    first,         \* per process: align_next_tick's first
    next_fire,     \* per process: main's next_fire, in seconds
    wake,          \* per process: the clock value its current sleep ends at
    req,           \* per process: the request in flight (its t0 and url)
    resp,          \* per process: what the last requests.get ended with
    meta,          \* per process: main's meta, the result of the last poll
    exc,           \* per process: the exception that ended it, "" while it runs
    tick,          \* per process: the number of the current loop iteration,
                   \*   last_seen_id at its start and the events it published
    prev,          \* per process: of the iteration before, last_seen_id at its
                   \*   start, the types of its events, its poll's top and code
    announced      \* every announcement published: its server and notice id

vars ==
    <<now, env, pc, last_seen_id, slot, first, next_fire, wake, req, resp, meta, exc,
      tick, prev, announced>>

NoUrl == build_url(0, 0)
NoMeta == MetaOf(JNull, None, 0, "-", "-", 0, NoUrl, None)
NoReq == [t0 |-> 0, url |-> NoUrl]
NoResp == Response(0, None, None, 0, None, 0)
NoTick == [n |-> 0, wm |-> 0, out |-> << >>]
NoPrev == [wm |-> 0, types |-> << >>, top |-> JNull, code |-> None]

\* the types of the events of out, in order
Types(out) == [i \in 1..Len(out) |-> out[i].type]

\* the clock value up to which time is followed
Horizon == (MaxTicks + 2) * PERIOD_SEC * Res

EnvOf(start_target_id, slot_env) == [START_TARGET_ID |-> start_target_id, SLOT |-> slot_env]

\* the processes in Started are launched at a clock value of StartTimes, each
\* with an environment of Envs; the others are never launched
InitWith(Started, StartTimes, Envs) ==
    /\ now \in StartTimes
    /\ \E e \in [Started -> Envs] :
         env = [p \in Procs |-> IF p \in Started THEN e[p] ELSE EnvOf(None, None)]
    /\ pc = [p \in Procs |-> IF p \in Started THEN "start" ELSE "off"]
    /\ last_seen_id = [p \in Procs |-> 0]
    /\ slot = [p \in Procs |-> 0]
    /\ first = [p \in Procs |-> 0]
    /\ next_fire = [p \in Procs |-> 0]
    /\ wake = [p \in Procs |-> 0]
    /\ req = [p \in Procs |-> NoReq]
    /\ resp = [p \in Procs |-> NoResp]
    /\ meta = [p \in Procs |-> NoMeta]
    /\ exc = [p \in Procs |-> ""]
    /\ tick = [p \in Procs |-> NoTick]
    /\ prev = [p \in Procs |-> NoPrev]
    /\ announced = << >>

(* ------------------------------ actions ------------------------------- *)
\* lines 118-129: the watermark from START_TARGET_ID, the slot from get_slot
Configure(p) ==
    /\ pc[p] = "start"
    /\ last_seen_id' = [last_seen_id EXCEPT ![p] = StartId(env[p].START_TARGET_ID)]
    /\ \E s \in get_slot(env[p].SLOT) : slot' = [slot EXCEPT ![p] = s]
    /\ pc' = [pc EXCEPT ![p] = "align"]
    /\ UNCHANGED <<now, env, first, next_fire, wake, req, resp, meta, exc, tick, prev,
                   announced>>

\* lines 105-113: align_next_tick up to the start of its sleep
AlignNextTick(p) ==
    /\ pc[p] = "align"
    /\ first' = [first EXCEPT ![p] = AlignFirst(slot[p], now)]
    /\ wake' = [wake EXCEPT ![p] = now + SleepFor(first'[p], now)]
    /\ pc' = [pc EXCEPT ![p] = "align_sleep"]
    /\ UNCHANGED <<now, env, last_seen_id, slot, next_fire, req, resp, meta, exc, tick, prev,
                   announced>>

\* lines 113-114 and 130: the sleep is over, align_next_tick returns first
AlignReturn(p) ==
    /\ pc[p] = "align_sleep"
    /\ now >= wake[p]
    /\ next_fire' = [next_fire EXCEPT ![p] = first[p]]
    /\ pc' = [pc EXCEPT ![p] = "fetch"]
    /\ UNCHANGED <<now, env, last_seen_id, slot, first, wake, req, resp, meta, exc, tick, prev,
                   announced>>

\* lines 132-133 and 58-62: a loop iteration starts and sends its request,
\* with a random suffix of Rnds in its url
SendRequest(p, Rnds) ==
    /\ pc[p] = "fetch"
    /\ tick[p].n < MaxTicks
    /\ \E rnd \in Rnds :
         req' = [req EXCEPT ![p] = [t0 |-> now, url |-> build_url(now, rnd)]]
    /\ prev' = [prev EXCEPT ![p] = [wm |-> tick[p].wm, types |-> Types(tick[p].out),
                                    top |-> meta[p].top, code |-> meta[p].code]]
    /\ tick' = [tick EXCEPT ![p] = [n |-> tick[p].n + 1, wm |-> last_seen_id[p],
                                    out |-> << >>]]
    /\ pc' = [pc EXCEPT ![p] = "request"]
    /\ UNCHANGED <<now, env, last_seen_id, slot, first, next_fire, wake, resp, meta, exc,
                   announced>>

\* lines 62-82 and 133: requests.get ends with an outcome of Outcomes and
\* fetch_top_notice returns meta, or raises and ends the process
ReceiveResponse(p, Outcomes) ==
    /\ pc[p] = "request"
    /\ \E o \in Outcomes, reqJsonError \in BOOLEAN :
         LET r == fetch_top_notice(req[p].url, o, now - req[p].t0, reqJsonError) IN
         /\ resp' = [resp EXCEPT ![p] = o]
         /\ IF r.exc = ""
            THEN /\ meta' = [meta EXCEPT ![p] = r.meta]
                 /\ pc' = [pc EXCEPT ![p] = "status"]
                 /\ exc' = exc
            ELSE /\ meta' = meta
                 /\ pc' = [pc EXCEPT ![p] = "crashed"]
                 /\ exc' = [exc EXCEPT ![p] = r.exc]
    /\ UNCHANGED <<now, env, last_seen_id, slot, first, next_fire, wake, req, tick, prev,
                   announced>>

\* rds.publish(CHANNEL, ...) of event by p returns
Published(p, event) ==
    /\ tick' = [tick EXCEPT ![p].out = Append(@, event)]
    /\ exc' = exc

\* rds.publish raises (the connection to the broadcast service failed)
PublishRaises(p) ==
    /\ pc' = [pc EXCEPT ![p] = "crashed"]
    /\ exc' = [exc EXCEPT ![p] = "ConnectionError"]
    /\ UNCHANGED <<tick, last_seen_id, announced>>

\* variant: a failed poll is reported and then retried at once
ReportStatusRetry(p) ==
    /\ pc[p] = "status"
    /\ IF IsFailure(meta[p])
       THEN \/ /\ Published(p, status_payload(meta[p], p, slot[p], now))
               /\ pc' = [pc EXCEPT ![p] = "fetch"]
               /\ UNCHANGED <<last_seen_id, announced>>
            \/ PublishRaises(p)
       ELSE /\ pc' = [pc EXCEPT ![p] = "announce"]
            /\ UNCHANGED <<tick, exc, last_seen_id, announced>>
    /\ UNCHANGED <<now, env, slot, first, next_fire, wake, req, resp, meta, prev>>

\* lines 136-152: a failed poll is published as a status event
ReportStatus(p) ==
    /\ pc[p] = "status"
    /\ IF IsFailure(meta[p])
       THEN \/ /\ Published(p, status_payload(meta[p], p, slot[p], now))
               /\ pc' = [pc EXCEPT ![p] = "announce"]
               /\ UNCHANGED <<last_seen_id, announced>>
            \/ PublishRaises(p)
       ELSE /\ pc' = [pc EXCEPT ![p] = "announce"]
            /\ UNCHANGED <<tick, exc, last_seen_id, announced>>
    /\ UNCHANGED <<now, env, slot, first, next_fire, wake, req, resp, meta, prev>>

\* lines 155-179: a new notice is published as an announcement event
Announce(p) ==
    /\ pc[p] = "announce"
    /\ LET top == meta[p].top IN
       IF HasCandidate(meta[p]) /\ CandidateError(top) # ""
       THEN /\ pc' = [pc EXCEPT ![p] = "crashed"]
            /\ exc' = [exc EXCEPT ![p] = CandidateError(top)]
            /\ UNCHANGED <<tick, last_seen_id, announced>>
       ELSE IF HasCandidate(meta[p]) /\ Announces(top, last_seen_id[p])
       THEN \/ /\ Published(p, announce_payload(top, p, now))
               /\ announced' = Append(announced, [server |-> p, notice_id |-> CurId(top)])
               /\ last_seen_id' = [last_seen_id EXCEPT ![p] = NewWatermark(top, @)]
               /\ pc' = [pc EXCEPT ![p] = "advance"]
            \/ PublishRaises(p)
       ELSE /\ pc' = [pc EXCEPT ![p] = "advance"]
            /\ UNCHANGED <<tick, exc, last_seen_id, announced>>
    /\ UNCHANGED <<now, env, slot, first, next_fire, wake, req, resp, meta, prev>>

\* variant: the fire times missed by an overrun are skipped
AdvanceSkipping(p) ==
    /\ pc[p] = "advance"
    /\ next_fire' = [next_fire EXCEPT ![p] =
                      IF (@ + PERIOD_SEC) * Res <= now THEN AlignFirst(slot[p], now)
                      ELSE @ + PERIOD_SEC]
    /\ wake' = [wake EXCEPT ![p] = now + SleepFor(next_fire'[p], now)]
    /\ pc' = [pc EXCEPT ![p] = "sleep"]
    /\ UNCHANGED <<now, env, last_seen_id, slot, first, req, resp, meta, exc, tick, prev,
                   announced>>

\* lines 182-184 up to the start of the sleep
Advance(p) ==
    /\ pc[p] = "advance"
    /\ next_fire' = [next_fire EXCEPT ![p] = @ + PERIOD_SEC]
    /\ wake' = [wake EXCEPT ![p] = now + SleepFor(next_fire'[p], now)]
    /\ pc' = [pc EXCEPT ![p] = "sleep"]
    /\ UNCHANGED <<now, env, last_seen_id, slot, first, req, resp, meta, exc, tick, prev,
                   announced>>

\* line 184 and 132: the sleep is over, the loop starts its next iteration
Wake(p) ==
    /\ pc[p] = "sleep"
    /\ now >= wake[p]
    /\ pc' = [pc EXCEPT ![p] = "fetch"]
    /\ UNCHANGED <<now, env, last_seen_id, slot, first, next_fire, wake, req, resp, meta, exc,
                   tick, prev, announced>>

Blocked(p) == pc[p] \in {"align_sleep", "sleep", "request"}

\* The clock advances by one unit while every process sleeps, waits for its
\* response or has ended.  A request stays in flight for at most maxFetch
\* units and a sleep returns at most maxLate units late.
Tick(maxFetch, maxLate) ==
    /\ now < Horizon
    /\ \E p \in Procs : Blocked(p)
    /\ \A p \in Procs :
         /\ pc[p] \in {"align_sleep", "sleep", "request", "crashed", "off"}
         /\ pc[p] = "request" => now - req[p].t0 < maxFetch
         /\ pc[p] \in {"align_sleep", "sleep"} => now < wake[p] + maxLate
    /\ now' = now + 1
    /\ UNCHANGED <<env, pc, last_seen_id, slot, first, next_fire, wake, req, resp, meta, exc,
                   tick, prev, announced>>

(* --------------------------- specifications --------------------------- *)
\* environments with a configured slot
SlotEnvs ==
    { EnvOf(None, Some(<<"2">>)),
      EnvOf(Some(<<"1">>), Some(<<"0">>)),
      EnvOf(Some(<<"-", "1">>), Some(<<" ", "3">>)),
      EnvOf(Some(<<"x">>), Some(<<"2">>)) }

\* One process with a configured slot; every outcome of a poll; a request
\* takes at most one clock unit and no sleep returns late.
Init == InitWith({"s1"}, {1}, SlotEnvs)

Next ==
    \/ \E p \in Procs : Configure(p)
    \/ \E p \in Procs : AlignNextTick(p)
    \/ \E p \in Procs : AlignReturn(p)
    \/ \E p \in Procs : SendRequest(p, {RAND_LO})
    \/ \E p \in Procs : ReceiveResponse(p, AllOutcomes)
    \/ \E p \in Procs : ReportStatus(p)
    \/ \E p \in Procs : Announce(p)
    \/ \E p \in Procs : Advance(p)
    \/ \E p \in Procs : Wake(p)
    \/ Tick(1, 0)

Spec == Init /\ [][Next]_vars

\* environments without a usable slot: get_slot draws one
DrawEnvs == { EnvOf(None, None), EnvOf(Some(<<"1">>), Some(<<"7">>)) }

SchedOutcomes ==
    { Ok(Feed(JList(<<Notice(JInt(2), JStr(TitleListing))>>))),
      Response(429, None, None, 0, None, 25) }

\* One process started at any phase of the period, with a configured or a
\* drawn slot; a request takes up to MaxFetchTime units, longer than a period,
\* and a sleep returns up to MaxOversleep units late.
InitSched == InitWith({"s1"}, 0..(PERIOD_SEC * Res - 1), DrawEnvs)

NextSched ==
    \/ \E p \in Procs : Configure(p)
    \/ \E p \in Procs : AlignNextTick(p)
    \/ \E p \in Procs : AlignReturn(p)
    \/ \E p \in Procs : SendRequest(p, {RAND_HI})
    \/ \E p \in Procs : ReceiveResponse(p, SchedOutcomes)
    \/ \E p \in Procs : ReportStatus(p)
    \/ \E p \in Procs : Announce(p)
    \/ \E p \in Procs : Advance(p)
    \/ \E p \in Procs : Wake(p)
    \/ Tick(MaxFetchTime, MaxOversleep)

SpecSched == InitSched /\ [][NextSched]_vars

\* One process with the default environment; a request may stay in flight
\* for more than two periods (a response body that trickles in: the read
\* timeout of line 12 bounds the wait for each byte, not the whole download),
\* and no sleep returns late.
OverrunEnvs == { EnvOf(None, Some(<<"0">>)) }

InitOverrun == InitWith({"s1"}, {0}, OverrunEnvs)

NextOverrun ==
    \/ \E p \in Procs : Configure(p)
    \/ \E p \in Procs : AlignNextTick(p)
    \/ \E p \in Procs : AlignReturn(p)
    \/ \E p \in Procs : SendRequest(p, {RAND_HI})
    \/ \E p \in Procs : ReceiveResponse(p, SchedOutcomes)
    \/ \E p \in Procs : ReportStatus(p)
    \/ \E p \in Procs : Announce(p)
    \/ \E p \in Procs : Advance(p)
    \/ \E p \in Procs : Wake(p)
    \/ Tick(2 * PERIOD_SEC * Res + 1, 0)

SpecOverrun == InitOverrun /\ [][NextOverrun]_vars

\* A fleet of two processes, started together and configured with the same
\* slot, so that they poll at the same instants; the feed's top notice is
\* notice 2 or notice 3; a request takes at most one clock unit and no sleep
\* returns late.
FleetEnvs == { EnvOf(None, Some(<<"0">>)) }

FleetOutcomes ==
    { Ok(Feed(JList(<<Notice(JInt(2), JStr(TitleListing))>>))),
      Ok(Feed(JList(<<Notice(JInt(3), JStr(TitlePlain))>>))),
      Response(429, None, None, 0, None, 25) }

InitFleet == InitWith(Procs, {1}, FleetEnvs)

NextFleet ==
    \/ \E p \in Procs : Configure(p)
    \/ \E p \in Procs : AlignNextTick(p)
    \/ \E p \in Procs : AlignReturn(p)
    \/ \E p \in Procs : SendRequest(p, {RAND_LO})
    \/ \E p \in Procs : ReceiveResponse(p, FleetOutcomes)
    \/ \E p \in Procs : ReportStatus(p)
    \/ \E p \in Procs : Announce(p)
    \/ \E p \in Procs : Advance(p)
    \/ \E p \in Procs : Wake(p)
    \/ Tick(1, 0)

SpecFleet == InitFleet /\ [][NextFleet]_vars

\* One process with every kind of SLOT: unset, empty, not a number, out of
\* range on either side, and in range (bare, signed, padded with blanks).
SlotKindEnvs ==
    { EnvOf(None, None) }
    \cup { EnvOf(None, Some(t)) :
             t \in { << >>, <<"x">>, <<"2", ".", "0">>, <<"-", "1">>, <<"4">>, <<"7">>,
                     <<"0">>, <<"2">>, <<"+", "1">>, <<" ", "3">>, <<"3", " ">> } }

InitSlots == InitWith({"s1"}, {1}, SlotKindEnvs)

NextSlots ==
    \/ \E p \in Procs : Configure(p)
    \/ \E p \in Procs : AlignNextTick(p)
    \/ \E p \in Procs : AlignReturn(p)
    \/ \E p \in Procs : SendRequest(p, {RAND_LO})
    \/ \E p \in Procs : ReceiveResponse(p, SchedOutcomes)
    \/ \E p \in Procs : ReportStatus(p)
    \/ \E p \in Procs : Announce(p)
    \/ \E p \in Procs : Advance(p)
    \/ \E p \in Procs : Wake(p)
    \/ Tick(1, 0)

SpecSlots == InitSlots /\ [][NextSlots]_vars

\* One process with slot 1; every request takes less than a period, and a
\* sleep returns up to MaxOversleep units late.
UnderEnvs == { EnvOf(None, Some(<<"1">>)) }

InitUnder == InitWith({"s1"}, {0, 3}, UnderEnvs)

NextUnder ==
    \/ \E p \in Procs : Configure(p)
    \/ \E p \in Procs : AlignNextTick(p)
    \/ \E p \in Procs : AlignReturn(p)
    \/ \E p \in Procs : SendRequest(p, {RAND_HI})
    \/ \E p \in Procs : ReceiveResponse(p, SchedOutcomes)
    \/ \E p \in Procs : ReportStatus(p)
    \/ \E p \in Procs : Announce(p)
    \/ \E p \in Procs : Advance(p)
    \/ \E p \in Procs : Wake(p)
    \/ Tick(PERIOD_SEC * Res - 1, MaxOversleep)

SpecUnder == InitUnder /\ [][NextUnder]_vars

\* titles for TICKER_RE: two codes before the second trigger phrase; a code
\* in lower case; a code cut off from the phrase by a line break, then
\* another one; the phrase before the code; an empty code; only blanks
TitleTwoCodes ==
    <<"(", "A", ")", " ", "x", " ", "(", "B", "-", "1", ")", " ", "di", "ji", "teol",
      " ", " ", "ja", "san", "chu", "ga">>
TitleLowerCase == <<"(", "b", "t", "c", ")", " ", "sin", "gyu", "geo", "rae", "ji", "won", "an", "nae">>
TitleLineBreak ==
    <<"(", "E", "T", "H", ")", "\n", "(", "X", ".", "1", ")", "sin", "gyu", "\t", "geo",
      "rae", "ji", "won", "an", "nae", "!">>
TitlePhraseFirst == <<"sin", "gyu", "geo", "rae", "ji", "won", "an", "nae", " ", "(", "B", "T", "C", ")">>
TitleEmptyCode == <<"(", ")", " ", "di", "ji", "teol", "ja", "san", "chu", "ga">>
TitleBlank == <<" ", " ">>

TickerOutcomes ==
    { Ok(Feed(JList(<<Notice(JInt(1), JStr(TitleListing))>>))),
      Ok(Feed(JList(<<Notice(JInt(2), JStr(TitleTwoCodes))>>))),
      Ok(Feed(JList(<<Notice(JInt(3), JStr(TitleLowerCase))>>))),
      Ok(Feed(JList(<<Notice(JInt(4), JStr(TitleLineBreak))>>))),
      Ok(Feed(JList(<<Notice(JInt(5), JStr(TitlePhraseFirst))>>))),
      Ok(Feed(JList(<<Notice(JInt(6), JStr(TitleEmptyCode))>>))),
      Ok(Feed(JList(<<Notice(JInt(7), JStr(TitleBlank))>>))),
      Ok(Feed(JList(<<Notice(JStr(<<"1", "0">>), JNull)>>))),
      Ok(Feed(JList(<<Notice(JInt(11), JStr(TitlePlain))>>))) }

\* One process with the default environment and slot 0; every poll succeeds
\* with a notice whose title is one of the above.
InitTicker == InitWith({"s1"}, {1}, OverrunEnvs)

NextTicker ==
    \/ \E p \in Procs : Configure(p)
    \/ \E p \in Procs : AlignNextTick(p)
    \/ \E p \in Procs : AlignReturn(p)
    \/ \E p \in Procs : SendRequest(p, {RAND_LO})
    \/ \E p \in Procs : ReceiveResponse(p, TickerOutcomes)
    \/ \E p \in Procs : ReportStatus(p)
    \/ \E p \in Procs : Announce(p)
    \/ \E p \in Procs : Advance(p)
    \/ \E p \in Procs : Wake(p)
    \/ Tick(1, 0)

SpecTicker == InitTicker /\ [][NextTicker]_vars

(* ------------------------------ properties ---------------------------- *)
Running(p) == pc[p] \in {"fetch", "request", "status", "announce", "advance", "sleep"}

\* the notice ids p has announced so far, in order
RECURSIVE IdsOf(_, _)
IdsOf(p, log) ==
    IF Len(log) = 0 THEN << >>
    ELSE IF Head(log).server = p THEN <<Head(log).notice_id>> \o IdsOf(p, Tail(log))
    ELSE IdsOf(p, Tail(log))

\* p publishes an announcement in this step
AnnouncesNow(p) ==
    /\ Len(announced') = Len(announced) + 1
    /\ announced'[Len(announced')].server = p

\* C1: in every state, and so whenever a poll result is evaluated, a
\* process's last_seen_id is at least every notice id it has announced, and
\* the ids it has announced are strictly increasing (none is announced twice).
C1_Watermark ==
    \A p \in Procs :
        LET ids == IdsOf(p, announced) IN
        /\ \A i \in 1..Len(ids) : last_seen_id[p] >= ids[i]
        /\ \A i, j \in 1..Len(ids) : i < j => ids[i] < ids[j]

\* a second poll result is evaluated after two announcements
C1_Witness ==
    /\ pc["s1"] = "announce"
    /\ Len(IdsOf("s1", announced)) = 2
    /\ HasCandidate(meta["s1"])

\* C2: no step of a running process lowers its last_seen_id, whatever the
\* poll of the iteration was.
C2_NeverDecreases ==
    [][\A p \in Procs : Running(p) => last_seen_id'[p] >= last_seen_id[p]]_vars

\* an iteration has raised last_seen_id, and the next poll holds a lower id
C2_Witness ==
    /\ pc["s1"] = "advance"
    /\ tick["s1"].n >= 2
    /\ prev["s1"].wm < tick["s1"].wm
    /\ HasCandidate(meta["s1"])
    /\ CandidateError(meta["s1"].top) = ""
    /\ CurId(meta["s1"].top) < last_seen_id["s1"]

\* C3: an announcement is published only for a candidate whose id is greater
\* than last_seen_id at that moment, than the start value of last_seen_id and
\* than every id the process announced before, that is, than every value
\* last_seen_id has had.
C3_OnlyGreater ==
    [][\A p \in Procs : AnnouncesNow(p) =>
          LET id == announced'[Len(announced')].notice_id
              ids == IdsOf(p, announced)
          IN  /\ pc[p] = "announce"
              /\ HasCandidate(meta[p])
              /\ id = CurId(meta[p].top)
              /\ id > last_seen_id[p]
              /\ id > StartId(env[p].START_TARGET_ID)
              /\ \A i \in 1..Len(ids) : id > ids[i]]_vars

\* after an announcement, a poll whose id is not above last_seen_id has been
\* evaluated and has published nothing
C3_Witness ==
    /\ pc["s1"] = "advance"
    /\ Len(announced) >= 1
    /\ HasCandidate(meta["s1"])
    /\ CandidateError(meta["s1"].top) = ""
    /\ ~IsBrand(TitleOf(meta["s1"].top))
    /\ CurId(meta["s1"].top) <= last_seen_id["s1"]
    /\ tick["s1"].out = << >>

\* top is a notice record whose title, when present, is text: lines 157-163
\* raise nothing on it
ValidNotice(top) == Truthy(top) /\ CandidateError(top) = ""

\* the title of a notice record contains the brand marker after trimming
BrandTitled(top) ==
    /\ HasGet(top)
    /\ HasKey(top, "title")
    /\ DictGet(top, "title", JNull).t = "str"
    /\ Contains(BRAND_MARKER, Strip(DictGet(top, "title", JNull).s))

\* C4: when two consecutive iterations evaluate the same successful poll
\* result, whose top notice is valid, non-brand and has an id above the
\* watermark at the start of the first, the first publishes exactly one
\* announcement and nothing else, the second publishes nothing, and
\* last_seen_id is that id after the first and after the second.
C4_Idempotent ==
    \A p \in Procs :
        ( /\ pc[p] = "advance"
          /\ tick[p].n >= 2
          /\ prev[p].code = Some(HTTP_OK)
          /\ ValidNotice(prev[p].top)
          /\ ~BrandTitled(prev[p].top)
          /\ CurId(prev[p].top) > prev[p].wm
          /\ meta[p].code = prev[p].code
          /\ meta[p].top = prev[p].top
          /\ meta[p].error = None )
        => /\ prev[p].types = <<"announcement">>
           /\ tick[p].out = << >>
           /\ tick[p].wm = CurId(prev[p].top)
           /\ last_seen_id[p] = CurId(prev[p].top)

\* the same new notice has been evaluated in two consecutive iterations
C4_Witness ==
    /\ pc["s1"] = "advance"
    /\ tick["s1"].n >= 2
    /\ prev["s1"].code = Some(HTTP_OK)
    /\ ValidNotice(prev["s1"].top)
    /\ ~BrandTitled(prev["s1"].top)
    /\ CurId(prev["s1"].top) > prev["s1"].wm
    /\ meta["s1"].code = prev["s1"].code
    /\ meta["s1"].top = prev["s1"].top
    /\ meta["s1"].error = None
    /\ prev["s1"].types = <<"announcement">>

\* the poll of p's current iteration failed: another status than 200, or an
\* error
FailedPoll(p) == meta[p].code # Some(HTTP_OK) \/ meta[p].error # None

\* C5: an iteration never publishes more than one event; once it has
\* evaluated its poll, a failed poll (status other than 200, or a transport
\* error) has published exactly one status event and no announcement, and a
\* 200 poll with a valid, non-brand notice above the watermark has published
\* exactly one announcement and no status event.
C5_Exclusive ==
    \A p \in Procs :
        /\ Len(tick[p].out) <= 1
        /\ pc[p] = "advance" =>
             /\ FailedPoll(p) => Types(tick[p].out) = <<"status">>
             /\ ( /\ ~FailedPoll(p)
                  /\ ValidNotice(meta[p].top)
                  /\ ~BrandTitled(meta[p].top)
                  /\ CurId(meta[p].top) > tick[p].wm )
                => Types(tick[p].out) = <<"announcement">>
             /\ ~FailedPoll(p) => \A i \in 1..Len(tick[p].out) : tick[p].out[i].type # "status"

\* an iteration with a 429 poll has published its one status event
C5_Witness ==
    /\ pc["s1"] = "advance"
    /\ meta["s1"].code = Some(429)
    /\ Types(tick["s1"].out) = <<"status">>

\* C6: once an iteration has evaluated a poll whose top notice's title
\* contains the brand marker, it has published no announcement and
\* last_seen_id is what it was at the start of the iteration, whatever the
\* notice's id and the watermark.
C6_BrandSuppressed ==
    \A p \in Procs :
        ( /\ pc[p] \in {"advance", "sleep"}
          /\ meta[p].code = Some(HTTP_OK)
          /\ BrandTitled(meta[p].top) )
        => /\ \A i \in 1..Len(tick[p].out) : tick[p].out[i].type # "announcement"
           /\ last_seen_id[p] = tick[p].wm

\* a brand notice with an id above the watermark has been evaluated
C6_Witness ==
    /\ pc["s1"] = "advance"
    /\ meta["s1"].code = Some(HTTP_OK)
    /\ BrandTitled(meta["s1"].top)
    /\ CurId(meta["s1"].top) > last_seen_id["s1"]
    /\ tick["s1"].out = << >>

\* C7: after a failed poll the iteration has published one status event that
\* carries the poll result's code, latency (rounded to a tenth of a
\* millisecond), etag, runtime, size and error, and the url of the request;
\* last_seen_id is what it was at the start of the iteration; and the step
\* that ends the iteration leaves last_seen_id and slot alone and adds exactly
\* PERIOD_SEC to next_fire.
C7_FailedPoll ==
    /\ [](\A p \in Procs :
            (pc[p] \in {"announce", "advance"} /\ FailedPoll(p)) =>
               /\ Len(tick[p].out) = 1
               /\ LET e == tick[p].out[1] IN
                  /\ e.type = "status"
                  /\ e.server = p
                  /\ e.slot = slot[p]
                  /\ e.http_code = meta[p].code
                  /\ e.rt_ms = Round1(meta[p].rt_ms)
                  /\ e.etag = meta[p].etag
                  /\ e.x_runtime = meta[p].x_runtime
                  /\ e.resp_size = meta[p].size
                  /\ e.request_url = req[p].url
                  /\ e.error = meta[p].error
               /\ last_seen_id[p] = tick[p].wm)
    /\ [][\A p \in Procs :
            (pc[p] = "advance" /\ FailedPoll(p) /\ pc'[p] # pc[p]) =>
               /\ pc'[p] = "sleep"
               /\ next_fire'[p] = next_fire[p] + PERIOD_SEC
               /\ slot'[p] = slot[p]
               /\ last_seen_id'[p] = last_seen_id[p]]_vars

\* an iteration whose request failed in the network has ended, its status
\* event carrying the error, and the process sleeps until the next fire time
C7_Witness ==
    /\ pc["s1"] = "sleep"
    /\ meta["s1"].code = None
    /\ meta["s1"].error = Some("timeout")
    /\ Len(tick["s1"].out) = 1
    /\ tick["s1"].out[1].error = Some("timeout")
    /\ tick["s1"].n = 2

\* C8: no outcome of the fetch or of a publish ends the process: no process
\* is ever ended by an exception.
C8_NeverTerminates == \A p \in Procs : pc[p] # "crashed"

\* C9: align_next_tick, called at any clock value with any slot of
\* 0..PERIOD_SEC-1, computes a first fire time t with t mod PERIOD_SEC = slot,
\* t strictly after the call time and at most one period after it, and
\* returns t only once the clock has reached t.
C9_FirstTick ==
    [][\A p \in Procs :
          /\ (pc[p] = "align" /\ pc'[p] = "align_sleep") =>
                /\ slot[p] \in 0..(PERIOD_SEC - 1)
                /\ first'[p] % PERIOD_SEC = slot[p]
                /\ first'[p] * Res > now
                /\ first'[p] * Res - now <= PERIOD_SEC * Res
          /\ (pc[p] = "align_sleep" /\ pc'[p] = "fetch") =>
                /\ next_fire'[p] = first[p]
                /\ now >= first[p] * Res]_vars

\* align_next_tick has just been called exactly on a boundary of its slot and
\* sleeps for a whole period
C9_Witness ==
    /\ pc["s1"] = "align_sleep"
    /\ slot["s1"] > 0
    /\ now = slot["s1"] * Res
    /\ first["s1"] = slot["s1"] + PERIOD_SEC
    /\ wake["s1"] = now + PERIOD_SEC * Res

\* the loop iterations p has completed
Completed(p) == IF pc[p] \in {"fetch", "sleep"} THEN tick[p].n ELSE tick[p].n - 1

\* C10: in every state of the loop next_fire mod PERIOD_SEC = slot, and
\* next_fire is the first fire time plus PERIOD_SEC for each completed
\* iteration: every iteration adds exactly PERIOD_SEC, also one whose work
\* overran the period.
C10_FireTime ==
    \A p \in Procs :
        Running(p) =>
            /\ next_fire[p] % PERIOD_SEC = slot[p]
            /\ next_fire[p] = first[p] + Completed(p) * PERIOD_SEC

\* the first iteration overran its period: the fire time it has just set is
\* already in the past and its sleep is empty
C10_Witness ==
    /\ pc["s1"] = "sleep"
    /\ tick["s1"].n = 1
    /\ next_fire["s1"] = first["s1"] + PERIOD_SEC
    /\ now > next_fire["s1"] * Res
    /\ wake["s1"] = now

\* C11: there is never more than one pending fire: at every moment a loop
\* iteration starts (its request is sent at req.t0), the clock is before
\* next_fire + PERIOD_SEC, whatever the overrun of the iterations before.
C11_OnePendingFire ==
    \A p \in Procs :
        pc[p] = "request" => req[p].t0 < (next_fire[p] + PERIOD_SEC) * Res

\* the number of announcements in log that carry notice id
RECURSIVE CountOf(_, _)
CountOf(id, log) ==
    IF Len(log) = 0 THEN 0
    ELSE (IF Head(log).notice_id = id THEN 1 ELSE 0) + CountOf(id, Tail(log))

\* the processes that were launched
Launched == { p \in Procs : pc[p] # "off" }

\* C12 as stated: on the shared channel, whatever the number of instances
\* and their interleaving, no notice id is announced more than once.
C12_OncePerNotice ==
    \A i \in 1..Len(announced) : CountOf(announced[i].notice_id, announced) = 1

\* C12: each instance announces a notice id at most once, so the channel
\* carries at most one announcement of a notice per launched instance (and
\* one from each instance that saw it as new and whose publish returned).
C12_OncePerInstance ==
    /\ [](\A i, j \in 1..Len(announced) :
             (i # j /\ announced[i].server = announced[j].server)
                 => announced[i].notice_id # announced[j].notice_id)
    /\ [](\A i \in 1..Len(announced) :
             CountOf(announced[i].notice_id, announced) <= Cardinality(Launched))
    /\ [][\A p \in Procs :
            (/\ pc[p] = "announce"
             /\ pc'[p] = "advance"
             /\ HasCandidate(meta[p])
             /\ ValidNotice(meta[p].top)
             /\ ~BrandTitled(meta[p].top)
             /\ CurId(meta[p].top) > last_seen_id[p])
                => /\ AnnouncesNow(p)
                   /\ announced'[Len(announced')].notice_id = CurId(meta[p].top)
                   /\ \A k \in 1..Len(IdsOf(p, announced)) :
                          IdsOf(p, announced)[k] # CurId(meta[p].top)]_vars

\* both instances have announced notice 2
C12_Witness ==
    /\ Len(announced) >= 2
    /\ \A p \in Procs : \E i \in 1..Len(announced) :
           announced[i].server = p /\ announced[i].notice_id = 2

\* SLOT is set to a text that int() accepts and whose value is in
\* [0, PERIOD_SEC)
SlotConfigured(e) ==
    /\ e.SLOT # None
    /\ IsIntText(e.SLOT[1])
    /\ IntOfText(e.SLOT[1]) \in 0..(PERIOD_SEC - 1)

\* C13: startup sets the slot to the configured SLOT when that parses as an
\* integer in [0, PERIOD_SEC), and otherwise (unset, unparseable, out of
\* range) to some integer of [0, PERIOD_SEC); once set, the slot is in
\* [0, PERIOD_SEC) in every state and no later step changes it.
C13_Slot ==
    /\ [](\A p \in Procs : pc[p] \notin {"off", "start"} => slot[p] \in 0..(PERIOD_SEC - 1))
    /\ [][\A p \in Procs :
            /\ (pc[p] = "start" /\ pc'[p] # "start")
                   => /\ slot'[p] \in 0..(PERIOD_SEC - 1)
                      /\ SlotConfigured(env[p]) => slot'[p] = IntOfText(env[p].SLOT[1])
            /\ pc[p] # "start" => slot'[p] = slot[p]]_vars

\* a third poll is under way with the slot " 3" was configured to
C13_Witness ==
    /\ env["s1"].SLOT = Some(<<" ", "3">>)
    /\ slot["s1"] = 3
    /\ tick["s1"].n = 3
    /\ pc["s1"] = "request"

\* SLOT=4, which is PERIOD_SEC itself, is out of range: a slot is drawn,
\* here 1
C13_WitnessDrawn ==
    /\ env["s1"].SLOT = Some(<<"4">>)
    /\ slot["s1"] = 1
    /\ pc["s1"] = "sleep"

\* the iteration of p has received its response (resp[p] is that response)
Received(p) == pc[p] \in {"status", "announce", "advance", "sleep", "crashed"} /\ tick[p].n >= 1

\* C14: after a 200 response whose body has an empty notice list or lacks
\* the expected structure, the iteration goes on with a poll result of no
\* top notice, code 200 and no error, publishes no event and leaves
\* last_seen_id as it was at its start.
C14_NoCandidate ==
    \A p \in Procs :
        (Received(p) /\ resp[p] \in ShapeOutcomes)
            => /\ pc[p] # "crashed"
               /\ ~Truthy(meta[p].top)
               /\ meta[p].code = Some(HTTP_OK)
               /\ meta[p].error = None
               /\ tick[p].out = << >>
               /\ last_seen_id[p] = tick[p].wm

\* a notice record without an id, or with an id int() raises on
IdUnusable(top) ==
    /\ HasGet(top)
    /\ \/ ~HasKey(top, "id")
       \/ IntError(DictGet(top, "id", JNull)) # ""

\* the iteration of p has evaluated a candidate whose id is unusable
EvaluatedUnusable(p) ==
    /\ pc[p] \in {"advance", "sleep"}
    /\ HasCandidate(meta[p])
    /\ IdUnusable(meta[p].top)

\* the iteration of p has published no announcement and has left
\* last_seen_id as it was at its start
Silent(p) ==
    /\ \A i \in 1..Len(tick[p].out) : tick[p].out[i].type # "announcement"
    /\ last_seen_id[p] = tick[p].wm

\* C15 as stated: a top notice whose id is missing or unparseable is
\* evaluated with id 0, is never announced and never changes last_seen_id,
\* whatever value last_seen_id was started from.
C15_IdZeroSilent ==
    \A p \in Procs : EvaluatedUnusable(p) => (CurId(meta[p].top) = 0 /\ Silent(p))

\* C15: a top notice whose id is missing or unparseable is evaluated with
\* id 0; while last_seen_id is 0 or more (the default start, or a
\* START_TARGET_ID that is not negative) it is never announced and never
\* changes last_seen_id.
C15_IdZeroSilentFromZero ==
    \A p \in Procs :
        EvaluatedUnusable(p)
            => /\ CurId(meta[p].top) = 0
               /\ tick[p].wm >= 0 => Silent(p)

\* a notice with the id "2a" has been evaluated with last_seen_id = 1, as
\* seeded from START_TARGET_ID
C15_Witness ==
    /\ pc["s1"] = "advance"
    /\ HasCandidate(meta["s1"])
    /\ IdUnusable(meta["s1"].top)
    /\ DictGet(meta["s1"].top, "id", JNull) = JStr(<<"2", "a">>)
    /\ env["s1"].START_TARGET_ID = Some(<<"1">>)
    /\ tick["s1"].wm = 1

\* fetch_top_notice has returned the result of the response resp[p]
Returned(p) == pc[p] \in {"status", "announce", "advance", "sleep"} /\ tick[p].n >= 1

\* C16: whenever an HTTP response was received, the poll result's code is
\* the response's status code and it carries no error; only a network-layer
\* failure gives a result with an error, no code and no top notice; so a
\* failed poll has exactly one of code and error set, and a successful one
\* has code 200 and no error.
C16_Classified ==
    \A p \in Procs :
        Returned(p)
            => /\ resp[p].exc = None
                    => (meta[p].code = Some(resp[p].status_code) /\ meta[p].error = None)
               /\ resp[p].exc # None
                    => (meta[p].error # None /\ meta[p].code = None /\ meta[p].top = JNull)
               /\ IsFailure(meta[p]) => ((meta[p].code = None) # (meta[p].error = None))
               /\ ~IsFailure(meta[p])
                    => (meta[p].code = Some(HTTP_OK) /\ meta[p].error = None)

\* the order of the steps of one process: startup, then per iteration the
\* fetch, the evaluation (status, then announce), the advance and the wait;
\* an exception ends the process from the fetch or from the evaluation
StepOrder ==
    { <<"start", "align">>, <<"align", "align_sleep">>, <<"align_sleep", "fetch">>,
      <<"fetch", "request">>, <<"request", "status">>, <<"status", "announce">>,
      <<"announce", "advance">>, <<"advance", "sleep">>, <<"sleep", "fetch">>,
      <<"request", "crashed">>, <<"status", "crashed">>, <<"announce", "crashed">> }

\* C17: in each iteration a process performs one fetch, then the
\* evaluation, in which it publishes at most one event, then the advance of
\* next_fire and the wait; a failed poll is followed by the wait, not by
\* another fetch; next_fire changes only in the advance, by PERIOD_SEC, so
\* when the n+1-th fetch is sent it has been advanced exactly n times.
C17_TickOrder ==
    [][\A p \in Procs :
         /\ pc'[p] # pc[p] => <<pc[p], pc'[p]>> \in StepOrder
         /\ (pc[p] = "fetch" /\ pc'[p] = "request")
                => /\ tick'[p].n = tick[p].n + 1
                   /\ next_fire[p] = first[p] + tick[p].n * PERIOD_SEC
                   /\ tick'[p].out = << >>
         /\ (pc[p] = "advance" /\ pc'[p] = "sleep")
                => next_fire'[p] = next_fire[p] + PERIOD_SEC
         /\ (tick[p].n >= 1 /\ next_fire'[p] # next_fire[p]) => pc[p] = "advance"
         /\ pc[p] \notin {"fetch"} => tick'[p].n = tick[p].n
         /\ Len(tick'[p].out) <= 1]_vars

\* the second iteration, whose poll failed, has published its status event
\* and waits for the third fire time; the first one announced a notice
C17_Witness ==
    /\ pc["s1"] = "sleep"
    /\ tick["s1"].n = 2
    /\ Types(tick["s1"].out) = <<"status">>
    /\ prev["s1"].types = <<"announcement">>
    /\ next_fire["s1"] = first["s1"] + 2 * PERIOD_SEC
    /\ now < wake["s1"]

\* p starts a poll in this step
StartsPoll(p) == pc[p] = "fetch" /\ pc'[p] = "request"

\* the poll p starts now is on its fire time, on its slot's second, and,
\* when it is not the first, exactly a period after the poll before
OnSlot(p) ==
    /\ now = next_fire[p] * Res
    /\ (now \div Res) % PERIOD_SEC = slot[p]
    /\ tick[p].n >= 1 => now - req[p].t0 = PERIOD_SEC * Res

\* C18 as stated: with every iteration's work under a period, every poll
\* starts no earlier than its fire time, in the second of its slot, and
\* exactly PERIOD_SEC after the poll before.
C18_NoDrift ==
    [][\A p \in Procs :
         StartsPoll(p)
             => /\ now >= next_fire[p] * Res
                /\ (now \div Res) % PERIOD_SEC = slot[p]
                /\ tick[p].n >= 1 => now - req[p].t0 = PERIOD_SEC * Res]_vars

\* the sleep before the poll p starts now returned when it was due, and the
\* poll before, if any, started on its fire time
SleptOnTime(p) ==
    /\ now = wake[p]
    /\ tick[p].n >= 1 => req[p].t0 = (next_fire[p] - PERIOD_SEC) * Res

\* C18: with every iteration's work under a period, every poll starts no
\* earlier than its fire time; a poll whose sleep returned when it was due,
\* after a poll that started on its fire time, starts exactly on its own
\* fire time: in the second of its slot and exactly PERIOD_SEC after the poll
\* before, however long that one's work took.
C18_NoDriftOnTime ==
    [][\A p \in Procs :
         StartsPoll(p)
             => /\ now >= next_fire[p] * Res
                /\ SleptOnTime(p) => OnSlot(p)]_vars

\* the third poll is about to start on its fire time, after a second
\* iteration whose request took all but one unit of the period
C18_Witness ==
    /\ pc["s1"] = "fetch"
    /\ tick["s1"].n = 2
    /\ now = wake["s1"]
    /\ now = next_fire["s1"] * Res
    /\ req["s1"].t0 = (next_fire["s1"] - PERIOD_SEC) * Res
    /\ meta["s1"].rt_ms >= (PERIOD_SEC * Res - 1) * (100000 \div Res)

\* the poll of this iteration of p failed: a transport error or a response
\* with a status other than 200
PollFailed(p) ==
    /\ Received(p)
    /\ resp[p].exc # None \/ resp[p].status_code # HTTP_OK

\* C19: an iteration whose fetch has returned is followed by another poll;
\* in particular after a transport error or a non-200 response the process
\* is still running, so the poll of the next fire time is still issued (a
\* process that has ended takes no further step and polls no more).
C19_PollsGoOn ==
    \A p \in Procs : PollFailed(p) => pc[p] # "crashed"

\* the code TICKER_RE finds in each title of TickerOutcomes, as published
\* (the title is trimmed first); no code in any other
ExpectedTicker(title) ==
    CASE title = <<"(", "B", "T", "C", ")", " ", "sin", "gyu", " ", "geo", "rae", "ji",
                   "won", " ", "an", "nae">> -> <<"B", "T", "C">>
      [] title = TitleTwoCodes -> <<"A">>
      [] title = TitleLineBreak -> <<"X", ".", "1">>
      [] OTHER -> << >>

\* text is the decimal form of the number n >= 0
IsDecimalOf(text, n) ==
    /\ Len(text) > 0
    /\ \A i \in 1..Len(text) : IsDigit(text[i])
    /\ Len(text) > 1 => text[1] # "0"
    /\ DigitsVal(text) = n

\* C20: every announcement published has a ticker that is a string: the
\* code extracted from its title when the title has a parenthesised code
\* followed on the same line by a trigger phrase, the empty string (not
\* null) when the title is empty or has no match; and its notice_id is the
\* decimal text of the id that became last_seen_id.
C20_Ticker ==
    \A p \in Procs :
        pc[p] \in {"advance", "sleep"}
            => \A i \in 1..Len(tick[p].out) :
                 LET e == tick[p].out[i] IN
                 e.type = "announcement"
                     => /\ e.ticker.t = "str"
                        /\ e.ticker.s = ExpectedTicker(e.title)
                        /\ IsDecimalOf(e.notice_id, last_seen_id[p])
                        /\ last_seen_id[p] > tick[p].wm

\* the notice whose first code is cut off from the phrase by a line break
\* was announced with the second code, after one announced with no code
C20_Witness ==
    /\ pc["s1"] = "advance"
    /\ Len(tick["s1"].out) = 1
    /\ tick["s1"].out[1].type = "announcement"
    /\ tick["s1"].out[1].title = TitleLineBreak
    /\ tick["s1"].out[1].ticker = JStr(<<"X", ".", "1">>)
    /\ tick["s1"].out[1].notice_id = <<"4">>
    /\ prev["s1"].types = <<"announcement">>
    /\ DictGet(prev["s1"].top, "title", JNull) = JStr(TitleLowerCase)

=============================================================================
